---- MODULE Spec2Model ----
(***************************************************************************)
(* A model of paddle_quantum's linear-algebra helpers (linalg.py), of the  *)
(* VQSD training loop (VQSD/Paddle_VQSD.py) and of Gate.__setattr__        *)
(* (gate/base.py).                                                         *)
(*                                                                         *)
(* Complex numbers are pairs <<re, im>> of integers.  A tensor is a record *)
(* [shape, data]; for a 2-dimensional tensor data[i][j] is the entry of    *)
(* row i and column j (1-based).  An outcome of a call is a record         *)
(* [status, value]: status "raised" stands for a Python exception leaving  *)
(* the call.                                                               *)
(***************************************************************************)
EXTENDS Integers, Sequences, FiniteSets, TLC

VARIABLES
    mat, matBefore, eps, predRes, predPrev,          \* the property predicates
    genCall, genRes,                            \* the random-ensemble generators
    kArgs, kOut,                                \* NKron
    pc, ITR, itr, theta, bodies, grad, U, rho_tilde, rho_tilde_np, loss,
    steps, out, ret,                            \* Paddle_VQSD
    backend, dtype, attrs, lastSet              \* Gate.__setattr__

predVars == <<mat, matBefore, eps, predRes, predPrev>>
genVars  == <<genCall, genRes>>
kronVars == <<kArgs, kOut>>
vqsdVars == <<pc, ITR, itr, theta, bodies, grad, U, rho_tilde, rho_tilde_np,
              loss, steps, out, ret>>
gateVars == <<backend, dtype, attrs, lastSet>>
vars == <<predVars, genVars, kronVars, vqsdVars, gateVars>>

None == "None"

(***************************************************************************)
(* Complex arithmetic and tensors                                          *)
(***************************************************************************)
CZero == <<0, 0>>
COne  == <<1, 0>>
CAdd(a, b) == <<a[1] + b[1], a[2] + b[2]>>
CSub(a, b) == <<a[1] - b[1], a[2] - b[2]>>
CMul(a, b) == <<a[1] * b[1] - a[2] * b[2], a[1] * b[2] + a[2] * b[1]>>
CConj(a)   == <<a[1], 0 - a[2]>>
CAbsSq(a)  == a[1] * a[1] + a[2] * a[2]

RECURSIVE CSum(_, _)
\* the sum f[1] + ... + f[n] of complex numbers
CSum(f, n) == IF n = 0 THEN CZero ELSE CAdd(CSum(f, n - 1), f[n])

RECURSIVE NSum(_, _)
\* the sum f[1] + ... + f[n] of integers
NSum(f, n) == IF n = 0 THEN 0 ELSE NSum(f, n - 1) + f[n]

Tensor(sh, d) == [shape |-> sh, data |-> d]

Rows(m) == m.shape[1]
Cols(m) == m.shape[2]

\* mat.T
Transpose(m) ==
    Tensor(<<Cols(m), Rows(m)>>, [i \in 1..Cols(m) |-> [j \in 1..Rows(m) |-> m.data[j][i]]])
\* paddle.conj
Conj(m) ==
    Tensor(m.shape, [i \in 1..Rows(m) |-> [j \in 1..Cols(m) |-> CConj(m.data[i][j])]])
\* a - b
MatSub(a, b) ==
    Tensor(a.shape, [i \in 1..Rows(a) |-> [j \in 1..Cols(a) |->
                        CSub(a.data[i][j], b.data[i][j])]])
\* a @ b
MatMul(a, b) ==
    Tensor(<<Rows(a), Cols(b)>>, [i \in 1..Rows(a) |-> [j \in 1..Cols(b) |->
        CSum([k \in 1..Cols(a) |-> CMul(a.data[i][k], b.data[k][j])], Cols(a))]])
\* paddle.eye(n), cast to the dtype of the matrix
Eye(n) ==
    Tensor(<<n, n>>, [i \in 1..n |-> [j \in 1..n |-> IF i = j THEN COne ELSE CZero]])

\* a faulty dagger: the transpose without the conjugation
dagger_noconj(m) == Transpose(m)

\* dagger(mat) = paddle.conj(mat.T)
dagger(m) == Conj(Transpose(m))

\* abs_norm(mat) = paddle.norm(paddle.abs(mat)): the 2-norm of the entrywise
\* absolute values.  The model carries its square, sum |m_ij|^2, which is an
\* integer; the comparison with eps is made by NormBelow.
abs_norm(m) ==
    NSum([i \in 1..Rows(m) |->
            NSum([j \in 1..Cols(m) |-> CAbsSq(m.data[i][j])], Cols(m))], Rows(m))

\* norm < eps, for the squared norm n2 >= 0 and an integer eps
NormBelow(n2, e) == e > 0 /\ n2 < e * e

(***************************************************************************)
(* The property predicates                                                 *)
(***************************************************************************)
IsPow2(n) == \E k \in 0..n : 2 ^ k = n

\* the outcomes of a call: a returned bool, an exception; NoCall: not called yet
Returned(v) == [status |-> "returned", value |-> v]
Raised == [status |-> "raised", value |-> FALSE]
NoCall == [status |-> "none", value |-> FALSE]

\* The guard  len(shape) != 2 or shape[0] != shape[1]
\*            or math.log2(shape[0]) != math.ceil(math.log2(shape[0]))
\* with Python's left-to-right short-circuit evaluation.  math.log2(0) raises
\* ValueError (math domain error).
ShapeCheck(shape) ==
    IF Len(shape) # 2 THEN "reject"
    ELSE IF shape[1] # shape[2] THEN "reject"
    ELSE IF shape[1] = 0 THEN "raise"
    ELSE IF ~IsPow2(shape[1]) THEN "reject"
    ELSE "accept"

is_hermitian(m, e) ==
    CASE ShapeCheck(m.shape) = "raise"  -> Raised
      [] ShapeCheck(m.shape) = "reject" -> Returned(FALSE)
      [] OTHER -> Returned(NormBelow(abs_norm(MatSub(m, dagger(m))), e))

is_projector(m, e) ==
    CASE ShapeCheck(m.shape) = "raise"  -> Raised
      [] ShapeCheck(m.shape) = "reject" -> Returned(FALSE)
      [] OTHER -> Returned(NormBelow(abs_norm(MatSub(MatMul(m, m), m)), e))

is_unitary(m, e) ==
    CASE ShapeCheck(m.shape) = "raise"  -> Raised
      [] ShapeCheck(m.shape) = "reject" -> Returned(FALSE)
      [] OTHER -> Returned(NormBelow(abs_norm(MatSub(MatMul(m, dagger(m)), Eye(m.shape[1]))), e))

PredNames == {"is_hermitian", "is_projector", "is_unitary"}

\* the largest side of an input's shape, the largest tolerance
MaxSide == 3
MaxEps == 2
\* the numbers of dimensions of the inputs, the sides of the well-formed ones
\* and the entries they hold
NDims == {0, 1, 2, 3}
WellFormedSides == {1, 2}
EntrySet == {<<0, 0>>, <<1, 0>>, <<0 - 1, 0>>, <<0, 1>>, <<0, 0 - 1>>}
EpsSet == (0 - 1)..MaxEps

Shapes == UNION {[1..n -> 0..MaxSide] : n \in NDims}

\* not 2-dimensional, or not square, or side not a power of two (0 is none)
Malformed(shape) == Len(shape) # 2 \/ shape[1] # shape[2] \/ ~IsPow2(shape[1])

\* A malformed input is given by its shape alone: no predicate reads its entries.
MalformedInputs == {Tensor(sh, <<>>) : sh \in {x \in Shapes : Malformed(x)}}
WellFormedInputs ==
    UNION {{Tensor(<<d, d>>, dat) : dat \in [1..d -> [1..d -> EntrySet]]} : d \in WellFormedSides}

GenIdle == genCall = None /\ genRes = None
KronIdle == kArgs = <<>> /\ kOut = None
VqsdIdle ==
    /\ pc = "idle" /\ ITR = 0 /\ itr = 0 /\ theta = 0 /\ bodies = 0 /\ grad = <<>>
    /\ U = 0 /\ rho_tilde = 0 /\ rho_tilde_np = 0 /\ loss = 0
    /\ steps = <<>> /\ out = <<>> /\ ret = 0
GateIdle == backend = <<>> /\ dtype = <<>> /\ attrs = <<>> /\ lastSet = <<>>
PredIdle == mat = None /\ matBefore = None /\ eps = 0 /\ predRes = None /\ predPrev = None

PredInit ==
    /\ mat \in MalformedInputs \cup WellFormedInputs
    /\ matBefore = mat
    /\ eps \in EpsSet
    /\ predRes = [f \in PredNames |-> NoCall]
    /\ predPrev = [f \in PredNames |-> NoCall]
    /\ GenIdle /\ KronIdle /\ VqsdIdle /\ GateIdle

\* A call of a predicate on the tensor mat: the outcome is recorded, the outcome
\* of the previous call of the same predicate is kept in predPrev.  No predicate
\* assigns to its argument (abs_norm rebinds a local name only).
Record(f, outcome) ==
    /\ predPrev' = [predPrev EXCEPT ![f] = predRes[f]]
    /\ predRes' = [predRes EXCEPT ![f] = outcome]
    /\ UNCHANGED <<mat, matBefore, eps, genVars, kronVars, vqsdVars, gateVars>>

Call_is_hermitian == Record("is_hermitian", is_hermitian(mat, eps))
Call_is_projector == Record("is_projector", is_projector(mat, eps))
Call_is_unitary == Record("is_unitary", is_unitary(mat, eps))

PredNext == Call_is_hermitian \/ Call_is_projector \/ Call_is_unitary
SpecPred == PredInit /\ [][PredNext]_vars

\* C1: on a malformed input (not 2-dimensional, not square, or side not a power
\* of two, side 0 included) every predicate returns False and never raises.
C1_MalformedReturnsFalse ==
    Malformed(mat.shape) =>
        \A f \in PredNames : predRes[f] # NoCall => predRes[f] = Returned(FALSE)

\* The residuals of the three predicates, entry by entry:
\* sum |m_ij - conj(m_ji)|^2, sum |(sum_k m_ik m_kj) - m_ij|^2 and
\* sum |(sum_k m_ik conj(m_jk)) - delta_ij|^2.
Residual(f, m) ==
    LET d == m.shape[1]
        e(i, j) ==
            CASE f = "is_hermitian" -> CSub(m.data[i][j], CConj(m.data[j][i]))
              [] f = "is_projector" ->
                    CSub(CSum([k \in 1..d |-> CMul(m.data[i][k], m.data[k][j])], d),
                         m.data[i][j])
              [] f = "is_unitary" ->
                    CSub(CSum([k \in 1..d |-> CMul(m.data[i][k], CConj(m.data[j][k]))], d),
                         IF i = j THEN COne ELSE CZero)
    IN  NSum([i \in 1..d |-> NSum([j \in 1..d |-> CAbsSq(e(i, j))], d)], d)

\* C6: on a well-formed matrix each predicate returns True exactly when the norm
\* of its residual is strictly below eps; the call leaves M unchanged and a
\* repeated call gives the same result.
C6_PredicateContract ==
    ~Malformed(matBefore.shape) =>
        /\ mat = matBefore
        /\ \A f \in PredNames :
              /\ predRes[f] # NoCall =>
                    predRes[f] = Returned(eps > 0 /\ Residual(f, matBefore) < eps * eps)
              /\ predPrev[f] # NoCall => predPrev[f] = predRes[f]

\* a 2 x 2 unitary that is not Hermitian, each predicate called, one of them twice
C6_Witness ==
    /\ mat.shape = <<2, 2>>
    /\ predRes["is_unitary"] = Returned(TRUE)
    /\ predRes["is_hermitian"] = Returned(FALSE)
    /\ predRes["is_projector"] = Returned(FALSE)
    /\ predPrev["is_unitary"] = Returned(TRUE)

(***************************************************************************)
(* The random-ensemble generators                                          *)
(*                                                                         *)
(* A generated matrix is a record [shape, data, den]: the matrix with the  *)
(* entries data[i][j] / den (one complex denominator for the whole         *)
(* matrix), so that the division by the trace is exact.  The samples of    *)
(* the random number generator, and the results of the library routines    *)
(* the code treats as given (np.linalg.qr, scipy.linalg.sqrtm,             *)
(* scipy.stats.unitary_group), are drawn from a small family of integer    *)
(* matrices indexed by a seed.                                             *)
(***************************************************************************)
\* the largest qubit count, the most negative one, the largest rank, the seeds
MaxQubits == 2
MinQubits == 2
MaxRank == 5
NumSeeds == 2

QubitArgs == (0 - MinQubits)..MaxQubits
Seeds == 1..NumSeeds
\* rank: Optional[int]
RankArgs == {[value |-> 0, given |-> FALSE]} \cup
            {[value |-> r, given |-> TRUE] : r \in (0 - 1)..MaxRank}

Scaled(sh, d, dn) == [shape |-> sh, data |-> d, den |-> dn]
NoValue == Scaled(<<>>, <<>>, CZero)
GenReturned(v) == [status |-> "returned", value |-> v, exc |-> ""]
GenRaised(e) == [status |-> "raised", value |-> NoValue, exc |-> e]
GenNone == [status |-> "none", value |-> NoValue, exc |-> ""]

\* 2 ** n in Python, as the fraction <<numerator, denominator>>: an int for
\* n >= 0 and the float 1 / 2 ** (-n) for n < 0
Pow2(n) == IF n >= 0 THEN <<2 ^ n, 1>> ELSE <<1, 2 ^ (0 - n)>>
IsInt(q) == q[2] = 1

\* a sample of r x c real numbers
randn(r, c, s) ==
    Tensor(<<r, c>>, [i \in 1..r |-> [j \in 1..c |-> <<((i * s + j) % 3) - 1, 0>>]])

\* re + 1j * im
Complexify(re, im) ==
    Tensor(re.shape, [i \in 1..Rows(re) |-> [j \in 1..Cols(re) |->
                        <<re.data[i][j][1], im.data[i][j][1]>>]])

\* the numerator of paddle.trace(mat)
TraceNum(m) == CSum([i \in 1..Rows(m) |-> m.data[i][i]], Rows(m))

\* mat / paddle.trace(mat): (data / den) / (trace(data) / den) = data / trace(data)
DivByTrace(m) == Scaled(m.shape, m.data, TraceNum(m))

\* a faulty precondition: zero qubits accepted
QubitsPositive_loose(num_qubits) == num_qubits >= 0

\* assert num_qubits > 0
QubitsPositive(num_qubits) == num_qubits > 0

hermitian_random(num_qubits, s1, s2) ==
    IF ~QubitsPositive(num_qubits) THEN GenRaised("AssertionError")
    ELSE LET n == 2 ^ num_qubits
             vec == Complexify(randn(n, n, s1), randn(n, n, s2))
             m == MatMul(vec, dagger(vec))
         IN  GenReturned(DivByTrace(Scaled(m.shape, m.data, COne)))

orthogonal_projection_random(num_qubits, s1, s2) ==
    IF ~QubitsPositive(num_qubits) THEN GenRaised("AssertionError")
    ELSE LET n == 2 ^ num_qubits
             vec == Complexify(randn(n, 1, s1), randn(n, 1, s2))
             m == MatMul(vec, dagger(vec))
         IN  GenReturned(DivByTrace(Scaled(m.shape, m.data, COne)))

\* (2 + 0j) * proj_mat - id_mat = (2 * data - den * I) / den
unitary_hermitian_random(num_qubits, s1, s2) ==
    LET proj == orthogonal_projection_random(num_qubits, s1, s2)
    IN  IF proj.status = "raised" THEN proj
        ELSE LET p == proj.value
                 d == Rows(p)
             IN  GenReturned(Scaled(p.shape,
                    [i \in 1..d |-> [j \in 1..d |->
                        CSub(CMul(<<2, 0>>, p.data[i][j]),
                             IF i = j THEN p.den ELSE CZero)]], p.den))

\* np.block([[a, b], [c, e]]) of four h x h blocks
Block(a, b, c, e, h) ==
    [i \in 1..(2 * h) |-> [j \in 1..(2 * h) |->
        IF i <= h THEN (IF j <= h THEN a[i][j] ELSE b[i][j - h])
        ELSE (IF j <= h THEN c[i - h][j] ELSE e[i - h][j - h])]]

\* sq: what scipy.linalg.sqrtm(id_mat - mat0 @ mat0) returns, h x h
unitary_random_with_hermitian_block(num_qubits, s1, s2, sq) ==
    IF ~QubitsPositive(num_qubits) THEN GenRaised("AssertionError")
    ELSE LET herm == hermitian_random(num_qubits - 1, s1, s2)
         IN  IF herm.status = "raised" THEN herm
             ELSE LET mat0 == herm.value
                      h == 2 ^ (num_qubits - 1)
                      root == randn(h, h, sq)
                      \* mat1 = 1j * sqrtm(...), over the denominator of mat0
                      mat1 == [i \in 1..h |-> [j \in 1..h |->
                                  CMul(CMul(<<0, 1>>, root.data[i][j]), mat0.den)]]
                  IN  GenReturned(Scaled(<<2 * h, 2 * h>>,
                          Block(mat0.data, mat1, mat1, mat0.data, h), mat0.den))

\* scipy.stats.unitary_group(2 ** num_qubits) refuses a dimension that is not
\* an integer; what it and paddle.to_tensor do otherwise is the library's
\* choice (lib_ok), the matrix being the library's (seed s).
unitary_random(num_qubits, lib_ok, s) ==
    LET dim == Pow2(num_qubits)
    IN  IF ~IsInt(dim) THEN GenRaised("ValueError")
        ELSE IF ~lib_ok THEN GenRaised("TypeError")
        ELSE GenReturned(Scaled(<<dim[1], dim[1]>>, randn(dim[1], dim[1], s).data, COne))

\* np.random.randn(dim, dim) raises TypeError when dim is a float; mat_u, the
\* product of Q and the phases of diag(R), is the library's (seed s).
haar_orthogonal(num_qubits, s) ==
    LET dim == Pow2(num_qubits)
    IN  IF ~IsInt(dim) THEN GenRaised("TypeError")
        ELSE GenReturned(Scaled(<<dim[1], dim[1]>>, randn(dim[1], dim[1], s).data, COne))

haar_unitary(num_qubits, s1, s2) ==
    LET dim == Pow2(num_qubits)
    IN  IF ~IsInt(dim) THEN GenRaised("TypeError")
        ELSE GenReturned(Scaled(<<dim[1], dim[1]>>,
                Complexify(randn(dim[1], dim[1], s1), randn(dim[1], dim[1], s2)).data, COne))

\* the first column of the Haar matrix
haar_state_vector(num_qubits, is_real, s1, s2) ==
    LET u == IF is_real THEN haar_orthogonal(num_qubits, s1)
             ELSE haar_unitary(num_qubits, s1, s2)
    IN  IF u.status = "raised" THEN u
        ELSE GenReturned(Scaled(<<Rows(u.value)>>,
                [i \in 1..Rows(u.value) |-> u.value.data[i][1]], COne))

\* a faulty precondition: rank = dim refused
RankValid_strict(rank, dim) == 0 < rank[1] /\ rank[1] * dim[2] < dim[1] * rank[2]

\* 0 < rank <= dim, for the fractions rank and dim
RankValid(rank, dim) == 0 < rank[1] /\ rank[1] * dim[2] <= dim[1] * rank[2]

haar_density_operator(num_qubits, rank, is_real, s1, s2) ==
    LET dim == Pow2(num_qubits)
        rk == IF rank.given THEN <<rank.value, 1>> ELSE dim
    IN  IF ~RankValid(rk, dim) THEN GenRaised("AssertionError")
        ELSE IF ~(IsInt(dim) /\ IsInt(rk)) THEN GenRaised("TypeError")
        ELSE LET g == IF is_real THEN randn(dim[1], rk[1], s1)
                      ELSE Complexify(randn(dim[1], rk[1], s1), randn(dim[1], rk[1], s2))
                 m == IF is_real THEN MatMul(g, Transpose(g)) ELSE MatMul(g, dagger(g))
                 rho == DivByTrace(Scaled(m.shape, m.data, COne))
             IN  GenReturned(DivByTrace(rho))

\* a call: the generator, its arguments, and the samples it draws
Call(fn, n, rank, is_real, s1, s2, s3) ==
    [num_qubits |-> n, s1 |-> s1, s2 |-> s2, is_real |-> is_real,
     rank |-> rank, fn |-> fn, s3 |-> s3]

\* The arguments and the samples are drawn first; one generator is then called
\* with them.
GenInit ==
    /\ genCall \in {Call("none", n, rank, is_real, s1, s2, s3) :
                        n \in QubitArgs, rank \in RankArgs, is_real \in BOOLEAN,
                        s1 \in Seeds, s2 \in Seeds, s3 \in Seeds}
    /\ genRes = GenNone
    /\ PredIdle /\ KronIdle /\ VqsdIdle /\ GateIdle

GenDo(fn, outcome) ==
    /\ genCall.fn = "none"
    /\ genCall' = [genCall EXCEPT !.fn = fn]
    /\ genRes' = outcome
    /\ UNCHANGED <<predVars, kronVars, vqsdVars, gateVars>>

Call_hermitian_random ==
    GenDo("hermitian_random",
          hermitian_random(genCall.num_qubits, genCall.s1, genCall.s2))

Call_orthogonal_projection_random ==
    GenDo("orthogonal_projection_random",
          orthogonal_projection_random(genCall.num_qubits, genCall.s1, genCall.s2))

Call_unitary_hermitian_random ==
    GenDo("unitary_hermitian_random",
          unitary_hermitian_random(genCall.num_qubits, genCall.s1, genCall.s2))

Call_unitary_random_with_hermitian_block ==
    GenDo("unitary_random_with_hermitian_block",
          unitary_random_with_hermitian_block(genCall.num_qubits, genCall.s1, genCall.s2,
                                              genCall.s3))

Call_unitary_random ==
    \E lib_ok \in BOOLEAN :
        GenDo("unitary_random", unitary_random(genCall.num_qubits, lib_ok, genCall.s1))

Call_haar_orthogonal ==
    GenDo("haar_orthogonal", haar_orthogonal(genCall.num_qubits, genCall.s1))

Call_haar_unitary ==
    GenDo("haar_unitary", haar_unitary(genCall.num_qubits, genCall.s1, genCall.s2))

Call_haar_state_vector ==
    GenDo("haar_state_vector",
          haar_state_vector(genCall.num_qubits, genCall.is_real, genCall.s1, genCall.s2))

Call_haar_density_operator ==
    GenDo("haar_density_operator",
          haar_density_operator(genCall.num_qubits, genCall.rank, genCall.is_real,
                                genCall.s1, genCall.s2))

GenNext ==
    \/ Call_haar_orthogonal
    \/ Call_haar_unitary
    \/ Call_haar_state_vector
    \/ Call_haar_density_operator
    \/ Call_hermitian_random
    \/ Call_orthogonal_projection_random
    \/ Call_unitary_hermitian_random
    \/ Call_unitary_random_with_hermitian_block
    \/ Call_unitary_random
SpecGen == GenInit /\ [][GenNext]_vars

\* C2: every generator called with num_qubits <= 0 fails and returns no matrix.
C2_NonPositiveQubitsFail ==
    (genCall.fn # "none" /\ genCall.num_qubits <= 0) => genRes.status = "raised"

\* C3: for num_qubits >= 1 unitary_random_with_hermitian_block returns a
\* 2^n x 2^n matrix whose upper-left block equals its lower-right block and
\* whose off-diagonal blocks are equal.
C3_HermitianBlock ==
    (genCall.fn = "unitary_random_with_hermitian_block" /\ genCall.num_qubits >= 1) =>
        LET d == 2 ^ genCall.num_qubits
            h == 2 ^ (genCall.num_qubits - 1)
            m == genRes.value
        IN  /\ genRes.status = "returned"
            /\ m.shape = <<d, d>>
            /\ \A i \in 1..h, j \in 1..h :
                  /\ m.data[i][j] = m.data[i + h][j + h]
                  /\ m.data[i][j + h] = m.data[i + h][j]

\* the block structure where the call does return (num_qubits >= 2)
C3_Returned ==
    /\ genCall.fn = "unitary_random_with_hermitian_block"
    /\ genCall.num_qubits = 2
    /\ genRes.status = "returned"
    /\ genRes.value.shape = <<4, 4>>
    /\ genRes.value.data[1][2] = genRes.value.data[3][4]
    /\ genRes.value.data[1][2] # genRes.value.data[1][4]

\* the rank of the call, as a fraction, and whether it is in range
EffectiveRank == IF genCall.rank.given THEN <<genCall.rank.value, 1>>
                 ELSE Pow2(genCall.num_qubits)
RankInRange ==
    LET dim == Pow2(genCall.num_qubits)
        r == EffectiveRank
    IN  0 < r[1] /\ r[1] * dim[2] <= dim[1] * r[2]

\* the parts of C5 that do not depend on the sign of num_qubits: a given rank
\* out of range always fails with the same assertion failure and no matrix,
\* and an omitted rank gives what rank = dim gives
C5_Common ==
    /\ (genCall.rank.given /\ ~RankInRange) => genRes = GenRaised("AssertionError")
    /\ (~genCall.rank.given /\ genCall.num_qubits >= 0) =>
          genRes = haar_density_operator(genCall.num_qubits,
                      [value |-> 2 ^ genCall.num_qubits, given |-> TRUE],
                      genCall.is_real, genCall.s1, genCall.s2)

C5_ReturnsDimByDim ==
    /\ genRes.status = "returned"
    /\ genRes.value.shape = <<Pow2(genCall.num_qubits)[1], Pow2(genCall.num_qubits)[1]>>
    /\ Pow2(genCall.num_qubits)[2] = 1

\* C5 as stated: haar_density_operator fails on a given rank <= 0 or > dim,
\* takes an omitted rank as dim, and returns a dim x dim matrix whenever
\* 0 < rank <= dim.
C5_RankContract_Original ==
    genCall.fn = "haar_density_operator" =>
        /\ C5_Common
        /\ RankInRange => C5_ReturnsDimByDim

\* C5 amended: haar_density_operator fails on a given rank <= 0 or > dim, takes
\* an omitted rank as dim, and returns a dim x dim matrix whenever
\* num_qubits >= 0 and 0 < rank <= dim.
C5_RankContract ==
    genCall.fn = "haar_density_operator" =>
        /\ C5_Common
        /\ (genCall.num_qubits >= 0 /\ RankInRange) => C5_ReturnsDimByDim

\* a rank equal to dim accepted, on two qubits
C5_Witness ==
    /\ genCall.fn = "haar_density_operator"
    /\ genCall.num_qubits = 2
    /\ genCall.rank = [value |-> 4, given |-> TRUE]
    /\ genRes.status = "returned"
    /\ genRes.value.shape = <<4, 4>>

(***************************************************************************)
(* NKron                                                                   *)
(*                                                                         *)
(* The entries of the matrices are floating-point numbers and np.kron      *)
(* multiplies them with rounding.  The model keeps MantissaBits bits of    *)
(* mantissa where a double keeps 53: a number is an integer whose binary   *)
(* expansion has at most MantissaBits significant bits, and a product is   *)
(* rounded to the nearest such number, ties to even.                       *)
(***************************************************************************)
MantissaBits == 3

Abs(x) == IF x < 0 THEN 0 - x ELSE x

\* the number of bits of x >= 0 beyond MantissaBits
ExcessBits(x) == CHOOSE k \in 0..x : x < 2 ^ (MantissaBits + k) /\
                    (k = 0 \/ x >= 2 ^ (MantissaBits + k - 1))

\* x >= 0 rounded to MantissaBits significant bits, to nearest, ties to even
RoundNonNeg(x) ==
    LET k == ExcessBits(x)
        q == x \div (2 ^ k)
        r == x % (2 ^ k)
    IN  IF k = 0 THEN x
        ELSE IF 2 * r > 2 ^ k \/ (2 * r = 2 ^ k /\ q % 2 = 1) THEN (q + 1) * 2 ^ k
        ELSE q * 2 ^ k

\* the floating-point product a * b
FMul(a, b) == IF a * b < 0 THEN 0 - RoundNonNeg(Abs(a * b)) ELSE RoundNonNeg(a * b)

\* a faulty np.kron: the operands exchanged
kron_swapped(a, b) ==
    Tensor(<<Rows(a) * Rows(b), Cols(a) * Cols(b)>>,
           [p \in 1..(Rows(a) * Rows(b)) |-> [q \in 1..(Cols(a) * Cols(b)) |->
               FMul(b.data[((p - 1) \div Rows(a)) + 1][((q - 1) \div Cols(a)) + 1],
                    a.data[((p - 1) % Rows(a)) + 1][((q - 1) % Cols(a)) + 1])]])

\* np.kron(a, b) of two matrices: the block matrix of the a[i][j] * b
kron(a, b) ==
    Tensor(<<Rows(a) * Rows(b), Cols(a) * Cols(b)>>,
           [p \in 1..(Rows(a) * Rows(b)) |-> [q \in 1..(Cols(a) * Cols(b)) |->
               FMul(a.data[((p - 1) \div Rows(b)) + 1][((q - 1) \div Cols(b)) + 1],
                    b.data[((p - 1) % Rows(b)) + 1][((q - 1) % Cols(b)) + 1])]])

RECURSIVE reduce(_, _)
\* functools.reduce(lambda result, index: np.kron(result, index), args, initial)
reduce(args, initial) ==
    IF args = <<>> THEN initial
    ELSE reduce(Tail(args), kron(initial, Head(args)))

\* NKron(matrix_A, matrix_B, *args)
NKron(matrix_A, matrix_B, args) == reduce(args, kron(matrix_A, matrix_B))

\* the most matrices after the first two
MaxRest == 2
KronShapes == {<<1, 2>>, <<2, 1>>, <<2, 2>>}
KronSeeds == {1, 2}
\* matrices of entries 1..7, of either sign, that differ from place to place
KronInputs ==
    {Tensor(sh, [i \in 1..sh[1] |-> [j \in 1..sh[2] |->
                    (IF (i + j + s) % 2 = 0 THEN 1 ELSE 0 - 1) *
                    (((s + 2 * ((i - 1) * sh[2] + j)) % 7) + 1)]]) :
        sh \in KronShapes, s \in KronSeeds}
KronRests == UNION {[1..n -> KronInputs] : n \in 0..MaxRest}
NoTensor == Tensor(<<>>, <<>>)

\* The arguments are drawn first, at least two of them; NKron is then called.
KronInit ==
    /\ kArgs \in {<<a, b>> \o rest : a \in KronInputs, b \in KronInputs, rest \in KronRests}
    /\ kOut = NoTensor
    /\ PredIdle /\ GenIdle /\ VqsdIdle /\ GateIdle

Call_NKron ==
    /\ kOut = NoTensor
    /\ kOut' = NKron(kArgs[1], kArgs[2], SubSeq(kArgs, 3, Len(kArgs)))
    /\ UNCHANGED <<kArgs, predVars, genVars, vqsdVars, gateVars>>

KronNext == Call_NKron
SpecKron == KronInit /\ [][KronNext]_vars

RECURSIVE ProdOf(_, _, _)
\* the product of the k-th sides of the shapes of args[1..n]
ProdOf(args, k, n) == IF n = 0 THEN 1 ELSE ProdOf(args, k, n - 1) * args[n].shape[k]

\* the Kronecker product, entry by entry
IsKronecker(x, a, b) ==
    /\ x.shape = <<Rows(a) * Rows(b), Cols(a) * Cols(b)>>
    /\ \A i \in 1..Rows(a), j \in 1..Cols(a), k \in 1..Rows(b), l \in 1..Cols(b) :
          x.data[(i - 1) * Rows(b) + k][(j - 1) * Cols(b) + l]
              = FMul(a.data[i][j], b.data[k][l])

\* the left fold and the shape of the result
C7_FoldAndShape ==
    LET n == Len(kArgs)
        ab == NKron(kArgs[1], kArgs[2], <<>>)
    IN  /\ IsKronecker(ab, kArgs[1], kArgs[2])
        /\ n = 2 => kOut = ab
        /\ n = 3 => IsKronecker(kOut, ab, kArgs[3])
        /\ n = 4 => \E x \in {NKron(ab, kArgs[3], <<>>)} :
                        /\ IsKronecker(x, ab, kArgs[3])
                        /\ IsKronecker(kOut, x, kArgs[4])
        /\ kOut.shape = <<ProdOf(kArgs, 1, n), ProdOf(kArgs, 2, n)>>

\* the two groupings of three matrices
LeftGrouped == NKron(NKron(kArgs[1], kArgs[2], <<>>), kArgs[3], <<>>)
RightGrouped == NKron(kArgs[1], NKron(kArgs[2], kArgs[3], <<>>), <<>>)

\* x is the exact value e after two roundings: |x - e| <= |e| * (2u + u^2)
\* for the unit roundoff u = 2^(-MantissaBits)
WithinTwoRoundings(x, e) ==
    Abs(x - e) * 2 ^ (2 * MantissaBits) <= Abs(e) * (2 ^ (MantissaBits + 1) + 1)

\* both groupings have the shape of the product and every entry of both is the
\* exact product of the three entries up to two roundings
RegroupedWithinTolerance ==
    LET a == kArgs[1]
        b == kArgs[2]
        c == kArgs[3]
    IN  /\ LeftGrouped.shape = RightGrouped.shape
        /\ \A i \in 1..Rows(a), j \in 1..Cols(a), k \in 1..Rows(b), l \in 1..Cols(b),
              m \in 1..Rows(c), n \in 1..Cols(c) :
              LET p == ((i - 1) * Rows(b) + (k - 1)) * Rows(c) + m
                  q == ((j - 1) * Cols(b) + (l - 1)) * Cols(c) + n
                  e == a.data[i][j] * b.data[k][l] * c.data[m][n]
              IN  /\ WithinTwoRoundings(LeftGrouped.data[p][q], e)
                  /\ WithinTwoRoundings(RightGrouped.data[p][q], e)

\* C7 as stated: NKron(A, B, r1, ..., rk) is (((A kron B) kron r1) ... kron rk),
\* its shape is the product of the shapes of its arguments, and
\* NKron(NKron(A, B), C) = NKron(A, NKron(B, C)) entry for entry.
C7_LeftFold_Original ==
    kOut # NoTensor =>
        /\ C7_FoldAndShape
        /\ Len(kArgs) = 3 => LeftGrouped = RightGrouped

\* C7 amended: NKron(A, B, r1, ..., rk) is (((A kron B) kron r1) ... kron rk),
\* its shape is the product of the shapes of its arguments, and
\* NKron(NKron(A, B), C) and NKron(A, NKron(B, C)) have the same shape and
\* agree entry for entry within floating tolerance.
C7_LeftFold ==
    kOut # NoTensor =>
        /\ C7_FoldAndShape
        /\ Len(kArgs) = 3 => RegroupedWithinTolerance

\* three matrices, not all square, whose two groupings differ by rounding
C7_Witness ==
    /\ Len(kArgs) = 3
    /\ kArgs[1].shape = <<1, 2>>
    /\ kArgs[2].shape = <<2, 2>>
    /\ kArgs[3].shape = <<2, 1>>
    /\ kOut.shape = <<4, 4>>
    /\ kOut = LeftGrouped
    /\ LeftGrouped # RightGrouped

(***************************************************************************)
(* Paddle_VQSD                                                             *)
(*                                                                         *)
(* The circuit, the autodiff and the optimizer are the framework's.  The   *)
(* trainable parameters of the circuit are a value theta of a small set;   *)
(* the unitary of the circuit is determined by them and is named by them,  *)
(* and so is U * rho * U^dagger.  The loss and its gradient are any values *)
(* of small sets.  grad is the sequence of the gradients accumulated on    *)
(* the parameters since they were last cleared.  pc is the statement the   *)
(* call is at; steps lists the statements of the loop body executed in the *)
(* current iteration, bodies counts the bodies started, out is the console.*)
(***************************************************************************)
\* the largest iteration count, the number of parameter values
MaxITR == 11
NumTheta == 3
LossSet == {0, 1}
GradSet == {0 - 1, 0, 1}
\* a local name not yet bound
Unbound == 0 - 1

\* lines 58-65: the tensors, the circuit with its fresh parameters, the optimizer
VqsdInit ==
    /\ pc = "for"
    /\ ITR \in 0..MaxITR
    /\ itr = Unbound
    /\ theta \in 0..(NumTheta - 1)
    /\ bodies = 0
    /\ grad = <<>>
    /\ U = Unbound /\ rho_tilde = Unbound /\ rho_tilde_np = Unbound /\ loss = Unbound
    /\ steps = <<>> /\ out = <<>> /\ ret = Unbound
    /\ PredIdle /\ GenIdle /\ KronIdle /\ GateIdle

Others == <<predVars, genVars, kronVars, gateVars>>

\* for itr in range(ITR)
For ==
    /\ pc = "for"
    /\ IF itr + 1 < ITR
       THEN /\ itr' = itr + 1
            /\ bodies' = bodies + 1
            /\ steps' = <<>>
            /\ pc' = "build"
       ELSE /\ pc' = "return"
            /\ UNCHANGED <<itr, bodies, steps>>
    /\ UNCHANGED <<ITR, theta, grad, U, rho_tilde, rho_tilde_np, loss, out, ret, Others>>

\* U = net.unitary_matrix()
Build ==
    /\ pc = "build"
    /\ U' = theta
    /\ steps' = Append(steps, "build")
    /\ pc' = "forward"
    /\ UNCHANGED <<ITR, itr, theta, bodies, grad, rho_tilde, rho_tilde_np, loss, out, ret,
                   Others>>

\* loss_func(U, rho, sigma): rho_tilde = U * rho * U^dagger, named by U
loss_func(u, l) == <<l, u>>

\* loss, rho_tilde = loss_func(U, rho, sigma); rho_tilde_np = rho_tilde.numpy()
Forward ==
    /\ pc = "forward"
    /\ \E l \in LossSet :
          /\ loss' = loss_func(U, l)[1]
          /\ rho_tilde' = loss_func(U, l)[2]
    /\ rho_tilde_np' = rho_tilde'
    /\ steps' = Append(steps, "forward")
    /\ pc' = "backward"
    /\ UNCHANGED <<ITR, itr, theta, bodies, grad, U, out, ret, Others>>

\* loss.backward(): the gradient of the loss is added to the accumulated ones
Backward ==
    /\ pc = "backward"
    /\ \E g \in GradSet : grad' = Append(grad, g)
    /\ steps' = Append(steps, "backward")
    /\ pc' = "minimize"
    /\ UNCHANGED <<ITR, itr, theta, bodies, U, rho_tilde, rho_tilde_np, loss, out, ret,
                   Others>>

\* the sum of the accumulated gradients
GradSum == NSum(grad, Len(grad))

\* opt.minimize(loss): one step of the parameters against the gradient
Minimize ==
    /\ pc = "minimize"
    /\ theta' = (theta - GradSum) % NumTheta
    /\ steps' = Append(steps, "step")
    /\ pc' = "clear_grad"
    /\ UNCHANGED <<ITR, itr, bodies, grad, U, rho_tilde, rho_tilde_np, loss, out, ret,
                   Others>>

\* a faulty opt.clear_grad(): the gradients are kept
ClearGrad_kept ==
    /\ pc = "clear_grad"
    /\ grad' = grad
    /\ steps' = Append(steps, "clear")
    /\ pc' = "print"
    /\ UNCHANGED <<ITR, itr, theta, bodies, U, rho_tilde, rho_tilde_np, loss, out, ret,
                   Others>>

\* opt.clear_grad()
ClearGrad ==
    /\ pc = "clear_grad"
    /\ grad' = <<>>
    /\ steps' = Append(steps, "clear")
    /\ pc' = "print"
    /\ UNCHANGED <<ITR, itr, theta, bodies, U, rho_tilde, rho_tilde_np, loss, out, ret,
                   Others>>

\* if itr % 10 == 0: print('iter:', itr, 'loss:', ...)
PrintResults ==
    /\ pc = "print"
    /\ out' = IF itr % 10 = 0 THEN Append(out, <<itr, loss>>) ELSE out
    /\ pc' = "for"
    /\ UNCHANGED <<ITR, itr, theta, bodies, grad, U, rho_tilde, rho_tilde_np, loss, steps,
                   ret, Others>>

\* return rho_tilde_np: UnboundLocalError when the name was never assigned
Return ==
    /\ pc = "return"
    /\ IF rho_tilde_np = Unbound
       THEN pc' = "raised" /\ ret' = ret
       ELSE pc' = "done" /\ ret' = rho_tilde_np
    /\ UNCHANGED <<ITR, itr, theta, bodies, grad, U, rho_tilde, rho_tilde_np, loss, steps,
                   out, Others>>

VqsdNext ==
    \/ For
    \/ Build
    \/ Forward
    \/ Backward
    \/ Minimize
    \/ ClearGrad
    \/ PrintResults
    \/ Return
SpecVQSD == VqsdInit /\ [][VqsdNext]_vars

\* C4: for every ITR >= 0 and every sequence of losses the call ends after
\* exactly ITR loop bodies and then returns a matrix.
C4_ReturnsAfterITR ==
    pc \in {"return", "done", "raised"} =>
        /\ bodies = ITR
        /\ pc # "raised"
        /\ pc = "done" => ret # Unbound

\* C8: the matrix returned is U * rho * U^dagger for the unitary of the
\* parameters that result from all ITR optimizer steps.
C8_ReturnsOptimizedState == pc = "done" => ret = theta

BodyOrder == <<"build", "forward", "backward", "step", "clear">>

\* C9: in every iteration build, forward, backward, step and clear happen in
\* this order, once each; the accumulated gradients are empty at the start of
\* every iteration and at the return; a line is printed only after the step
\* and the clear of an iteration whose index is a multiple of 10.
C9_ControlSequence ==
    /\ [](/\ Len(steps) <= 5
          /\ steps = SubSeq(BodyOrder, 1, Len(steps))
          /\ pc \in {"for", "build", "return", "done", "raised"} => grad = <<>>
          /\ (pc \in {"for", "return", "done", "raised"} /\ bodies > 0) =>
                steps = BodyOrder)
    /\ [][out' # out =>
            /\ steps = BodyOrder
            /\ itr % 10 = 0
            /\ out' = Append(out, <<itr, loss>>)]_vars

\* a call of 11 iterations returned, the lines of iterations 0 and 10 printed
C9_Witness ==
    /\ pc = "done"
    /\ ITR = 11
    /\ Len(out) = 2
    /\ out[1][1] = 0
    /\ out[2][1] = 10
    /\ grad = <<>>
    /\ steps = BodyOrder

(***************************************************************************)
(* Gate.__setattr__                                                        *)
(*                                                                         *)
(* Two Gates and one Operator that is no Gate.  backend[o] and dtype[o]    *)
(* are the attributes of the same names of object o, attrs[g][n] is the    *)
(* attribute n of gate g, lastSet is the last assignment <<g, n, v>>.      *)
(* The name sub takes an Operator or None, depth an int, backend and dtype *)
(* a configuration value or None, as the signature of Gate.__init__ has    *)
(* them.                                                                   *)
(***************************************************************************)
Gates == {"gate1", "gate2"}
Operators == Gates \cup {"oper"}
\* paddle_quantum.get_backend() and paddle_quantum.get_dtype()
get_backend == "default_backend"
get_dtype == "default_dtype"
BackendValues == {None, "backend_a", get_backend}
DtypeValues == {None, "dtype_a", get_dtype}
AttrValues(n) ==
    CASE n = "sub" -> Operators \cup {None}
      [] n = "depth" -> {"1"}
      [] n = "backend" -> BackendValues
      [] n = "dtype" -> DtypeValues
AttrNames == {"sub", "depth", "backend", "dtype"}

\* Gate.__init__: super().__init__(backend, dtype, name_scope) with any
\* backend and dtype, None included; self.depth = depth
GateInit ==
    /\ backend \in [Operators -> {None, "backend_a"}]
    /\ dtype \in [Operators -> {None, "dtype_a"}]
    /\ attrs = [g \in Gates |-> [n \in {"sub", "depth"} |-> IF n = "sub" THEN None ELSE "1"]]
    /\ lastSet = <<>>
    /\ PredIdle /\ GenIdle /\ KronIdle /\ VqsdIdle

isinstance_Operator(value) == value \in Operators

\* super().__setattr__(name, value): b, d and a after it
SuperSetBackend(g, name, value) ==
    IF name = "backend" THEN [backend EXCEPT ![g] = value] ELSE backend
SuperSetDtype(g, name, value) ==
    IF name = "dtype" THEN [dtype EXCEPT ![g] = value] ELSE dtype
SuperSetAttrs(g, name, value) ==
    IF name \in {"backend", "dtype"} THEN attrs ELSE [attrs EXCEPT ![g][name] = value]

\* a faulty propagation: the backend of the gate given to the child whatever it has
PropagateBackend_always(b, g, value) ==
    IF isinstance_Operator(value)
    THEN [b EXCEPT ![value] = IF b[g] = None THEN get_backend ELSE b[g]]
    ELSE b

\* if value.backend is None:
\*     value.backend = paddle_quantum.get_backend() if self.backend is None else self.backend
PropagateBackend(b, g, value) ==
    IF isinstance_Operator(value) /\ b[value] = None
    THEN [b EXCEPT ![value] = IF b[g] = None THEN get_backend ELSE b[g]]
    ELSE b

\* if value.dtype is None:
\*     value.dtype = paddle_quantum.get_dtype() if self.dtype is None else self.dtype
PropagateDtype(d, g, value) ==
    IF isinstance_Operator(value) /\ d[value] = None
    THEN [d EXCEPT ![value] = IF d[g] = None THEN get_dtype ELSE d[g]]
    ELSE d

\* Gate.__setattr__(self, name, value), self = g
SetAttr(g, name, value) ==
    /\ attrs' = SuperSetAttrs(g, name, value)
    /\ backend' = PropagateBackend(SuperSetBackend(g, name, value), g, value)
    /\ dtype' = PropagateDtype(SuperSetDtype(g, name, value), g, value)
    /\ lastSet' = <<g, name, value>>
    /\ UNCHANGED <<predVars, genVars, kronVars, vqsdVars>>

Gate_setattr == \E g \in Gates, name \in AttrNames : \E value \in AttrValues(name) :
                    SetAttr(g, name, value)

GateNext == Gate_setattr
SpecGate == GateInit /\ [][GateNext]_vars

\* every Operator attached to a Gate has a backend and a dtype
AttachedConfigured ==
    \A g \in Gates :
        attrs[g]["sub"] \in Operators =>
            backend[attrs[g]["sub"]] # None /\ dtype[attrs[g]["sub"]] # None

\* the step is the assignment lastSet' = <<g, name, value>>: on an Operator,
\* each of its backend and dtype that is None becomes the gate's, or the
\* global default when the gate's is None, and one it has is kept; nothing
\* else changes but the attribute itself
C10_AssignmentEffect ==
    LET g == lastSet'[1]
        n == lastSet'[2]
        v == lastSet'[3]
        setB == n = "backend"
        setD == n = "dtype"
    IN  /\ attrs' = IF setB \/ setD THEN attrs ELSE [attrs EXCEPT ![g][n] = v]
        /\ \A o \in Operators :
              /\ backend'[o] =
                    IF v = o /\ backend[o] = None
                    THEN (IF backend[g] = None THEN get_backend ELSE backend[g])
                    ELSE IF setB /\ o = g THEN v ELSE backend[o]
              /\ dtype'[o] =
                    IF v = o /\ dtype[o] = None
                    THEN (IF dtype[g] = None THEN get_dtype ELSE dtype[g])
                    ELSE IF setD /\ o = g THEN v ELSE dtype[o]

\* C10 as stated: the effect of an assignment; after any sequence of
\* assignments every Operator attached to a Gate has a non-None backend and
\* dtype; attaching a child never changes the gate's own backend and dtype.
C10_Propagation_Original ==
    /\ [][C10_AssignmentEffect]_vars
    /\ []AttachedConfigured
    /\ [][lastSet'[3] \in Operators =>
            /\ backend'[lastSet'[1]] = backend[lastSet'[1]]
            /\ dtype'[lastSet'[1]] = dtype[lastSet'[1]]]_vars

\* C10 amended: the effect of an assignment; every Operator attached to a Gate
\* has a non-None backend and dtype after any sequence of assignments that
\* assigns None to no backend and no dtype; attaching a child other than the
\* gate itself never changes the gate's own backend and dtype.
C10_Propagation ==
    /\ [][C10_AssignmentEffect]_vars
    /\ [][(AttachedConfigured /\ ~(lastSet'[2] \in {"backend", "dtype"} /\ lastSet'[3] = None))
            => AttachedConfigured']_vars
    /\ [](lastSet = <<>> => AttachedConfigured)
    /\ [][(lastSet'[3] \in Operators /\ lastSet'[3] # lastSet'[1]) =>
            /\ backend'[lastSet'[1]] = backend[lastSet'[1]]
            /\ dtype'[lastSet'[1]] = dtype[lastSet'[1]]]_vars

\* a child without backend attached to a gate without backend but with a dtype:
\* the child has the default backend and the dtype of the gate
C10_Witness ==
    /\ lastSet = <<"gate1", "sub", "oper">>
    /\ attrs["gate1"]["sub"] = "oper"
    /\ backend["gate1"] = None
    /\ dtype["gate1"] = "dtype_a"
    /\ backend["oper"] = get_backend
    /\ dtype["oper"] = "dtype_a"

====
